---- MODULE Spec2Model ----
(***************************************************************************)
(* The Cython fast-math kernel, engine/core/performance/fast_math_c.pyx.   *)
(*                                                                         *)
(* A DTYPE_t value is modelled by an integer.  Values that the code        *)
(* obtains from sqrt or from a division are kept in fixed point, in units  *)
(* of 1/Scale, rounded down; every other value is a whole number, on which *)
(* float32 arithmetic is exact.  rotation_rad is given in quarter turns    *)
(* (multiples of pi/2), the angles whose sine and cosine are whole.        *)
(*                                                                         *)
(* One call of the kernel runs at a time.  A scalar fast_* function is one *)
(* step; the two batch functions run their loops one iteration per step.   *)
(***************************************************************************)
EXTENDS Integers, Sequences, FiniteSets, TLC

VARIABLES
    pc,         \* "idle", "transform", "distance" or "returned"
    op,         \* name of the function being (or last) called
    args,       \* record of the call's arguments
    ret,        \* the returned value, once pc = "returned"
    i, j,       \* cdef int i, j of the batch loops
    result,     \* batch_transform_points: the np.empty((num_points, 2)) array
    results,    \* batch_distance_check: the list being appended to
    visited,    \* history: the loop indices examined so far, in order
    seen        \* history: one earlier completed call (op, args, ret)

vars == <<pc, op, args, ret, i, j, result, results, visited, seen>>

-----------------------------------------------------------------------------
(* Bounds of the model *)

MaxLen == 2
MaxPos == 2
MaxSize == 1
Scale == 100

P0 == <<0, 0>>
P34 == <<3, 4>>
P10 == <<1, 0>>
Pm21 == <<0 - 2, 1>>

PointPool == {P0, P34, P10, Pm21}

Arrays == UNION {[1..n -> PointPool] : n \in 0..MaxLen}

\* The input sets of the full specification.
Full ==
    [vals       |-> (0 - MaxPos)..MaxPos,
     pos        |-> 0..MaxPos,
     size       |-> (0 - 1)..MaxSize,
     arrays     |-> Arrays,
     arrays2    |-> Arrays,
     thresholds |-> {0 - 5, 0 - 1, 0, 1, 4, 5},
     scales     |-> {0 - 1, 1, 2},
     rots       |-> 0..3,
     trans      |-> {0, 1}]

\* The input sets of the specification that also remembers an earlier call.
Pure ==
    [vals       |-> {0, 1},
     pos        |-> {0, 1},
     size       |-> {0, 1},
     arrays     |-> {<< >>, <<P0>>, <<P0, P34>>},
     arrays2    |-> {<< >>, <<P0>>, <<P34, P0>>},
     thresholds |-> {0 - 5, 5},
     scales     |-> {2},
     rots       |-> {0, 1},
     trans      |-> {1}]

-----------------------------------------------------------------------------
(* libc.math *)

RECURSIVE Newton(_, _)
Newton(n, x) ==
    LET y == (x + n \div x) \div 2
    IN  IF y >= x THEN x ELSE Newton(n, y)

\* the integer square root of n >= 0
ISqrt(n) == IF n = 0 THEN 0 ELSE Newton(n, n)

\* sqrt of a whole number v, in units of 1/Scale
sqrt(v) == ISqrt(v * Scale * Scale)

\* cos and sin of r quarter turns
cos(r) == CASE r % 4 = 0 -> 1 [] r % 4 = 1 -> 0 [] r % 4 = 2 -> 0 - 1 [] OTHER -> 0

sin(r) == CASE r % 4 = 0 -> 0 [] r % 4 = 1 -> 1 [] r % 4 = 2 -> 0 [] OTHER -> 0 - 1

-----------------------------------------------------------------------------
(* The cdef inline kernels *)

c_distance(x1, y1, x2, y2) ==
    LET dx == x2 - x1
        dy == y2 - y1
    IN  sqrt(dx * dx + dy * dy)

c_distance_squared(x1, y1, x2, y2) ==
    LET dx == x2 - x1
        dy == y2 - y1
    IN  dx * dx + dy * dy

c_normalize_xzero(x, y) ==
    LET length == sqrt(x * x + y * y)
    IN  IF x = 0
        THEN <<0, 0>>
        ELSE LET inv_length == (Scale * Scale) \div length
             IN  <<x * inv_length, y * inv_length>>

\* the pair (out_x, out_y), in units of 1/Scale
c_normalize(x, y) ==
    LET length == sqrt(x * x + y * y)
    IN  IF length = 0
        THEN <<0, 0>>
        ELSE LET inv_length == (Scale * Scale) \div length
             IN  <<x * inv_length, y * inv_length>>

c_lerp(a, b, t) == a + t * (b - a)

c_clamp_swapped(value, min_val, max_val) ==
    IF value < min_val THEN max_val
    ELSE IF value > max_val THEN min_val
    ELSE value

c_clamp(value, min_val, max_val) ==
    IF value < min_val THEN min_val
    ELSE IF value > max_val THEN max_val
    ELSE value

c_rect_collision_open(x1, y1, w1, h1, x2, y2, w2, h2) ==
    ~(x1 + w1 <= x2 \/ x2 + w2 <= x1 \/ y1 + h1 <= y2 \/ y2 + h2 <= y1)

c_rect_collision(x1, y1, w1, h1, x2, y2, w2, h2) ==
    ~(x1 + w1 < x2 \/ x2 + w2 < x1 \/ y1 + h1 < y2 \/ y2 + h2 < y1)

c_circle_collision_open(x1, y1, r1, x2, y2, r2) ==
    LET dx == x2 - x1
        dy == y2 - y1
        distance_squared == dx * dx + dy * dy
        radius_sum == r1 + r2
    IN  distance_squared < radius_sum * radius_sum

c_circle_collision_r1(x1, y1, r1, x2, y2, r2) ==
    LET dx == x2 - x1
        dy == y2 - y1
        distance_squared == dx * dx + dy * dy
        radius_sum == r1 + r1
    IN  distance_squared <= radius_sum * radius_sum

c_circle_collision(x1, y1, r1, x2, y2, r2) ==
    LET dx == x2 - x1
        dy == y2 - y1
        distance_squared == dx * dx + dy * dy
        radius_sum == r1 + r2
    IN  distance_squared <= radius_sum * radius_sum

-----------------------------------------------------------------------------
(* The Python-accessible scalar functions *)

fast_distance(x1, y1, x2, y2) == c_distance(x1, y1, x2, y2)

fast_distance_squared(x1, y1, x2, y2) == c_distance_squared(x1, y1, x2, y2)

fast_normalize(x, y) == c_normalize(x, y)

fast_lerp(a, b, t) == c_lerp(a, b, t)

fast_clamp(value, min_val, max_val) == c_clamp(value, min_val, max_val)

fast_rect_collision(x1, y1, w1, h1, x2, y2, w2, h2) ==
    c_rect_collision(x1, y1, w1, h1, x2, y2, w2, h2)

fast_circle_collision(x1, y1, r1, x2, y2, r2) ==
    c_circle_collision(x1, y1, r1, x2, y2, r2)

-----------------------------------------------------------------------------
(* State *)

NoCall == [op |-> "none", args |-> << >>, ret |-> << >>]

\* a row of np.empty that has not been written
Uninit == << >>

Init ==
    /\ pc = "idle"
    /\ op = "none"
    /\ args = << >>
    /\ ret = << >>
    /\ i = 0
    /\ j = 0
    /\ result = << >>
    /\ results = << >>
    /\ visited = << >>
    /\ seen = NoCall

\* a scalar function called with arguments a returns r
Return(o, a, r) ==
    /\ pc' = "returned"
    /\ op' = o
    /\ args' = a
    /\ ret' = r
    /\ UNCHANGED <<i, j, result, results, visited, seen>>

FastDistance(D) ==
    /\ pc = "idle"
    /\ \E x1 \in D.pos, y1 \in D.pos, x2 \in D.pos, y2 \in D.pos :
           Return("fast_distance",
                  [x1 |-> x1, y1 |-> y1, x2 |-> x2, y2 |-> y2],
                  fast_distance(x1, y1, x2, y2))

FastDistanceSquared(D) ==
    /\ pc = "idle"
    /\ \E x1 \in D.pos, y1 \in D.pos, x2 \in D.pos, y2 \in D.pos :
           Return("fast_distance_squared",
                  [x1 |-> x1, y1 |-> y1, x2 |-> x2, y2 |-> y2],
                  fast_distance_squared(x1, y1, x2, y2))

FastNormalize(D) ==
    /\ pc = "idle"
    /\ \E x \in D.vals, y \in D.vals :
           Return("fast_normalize", [x |-> x, y |-> y], fast_normalize(x, y))

FastLerp(D) ==
    /\ pc = "idle"
    /\ \E a \in D.vals, b \in D.vals, t \in D.vals :
           Return("fast_lerp", [a |-> a, b |-> b, t |-> t], fast_lerp(a, b, t))

FastClamp(D) ==
    /\ pc = "idle"
    /\ \E value \in D.vals, min_val \in D.vals, max_val \in D.vals :
           Return("fast_clamp",
                  [value |-> value, min_val |-> min_val, max_val |-> max_val],
                  fast_clamp(value, min_val, max_val))

FastRectCollision(D) ==
    /\ pc = "idle"
    /\ \E x1 \in D.pos, y1 \in D.pos, w1 \in D.size, h1 \in D.size,
          x2 \in D.pos, y2 \in D.pos, w2 \in D.size, h2 \in D.size :
           Return("fast_rect_collision",
                  [x1 |-> x1, y1 |-> y1, w1 |-> w1, h1 |-> h1,
                   x2 |-> x2, y2 |-> y2, w2 |-> w2, h2 |-> h2],
                  fast_rect_collision(x1, y1, w1, h1, x2, y2, w2, h2))

FastCircleCollision(D) ==
    /\ pc = "idle"
    /\ \E x1 \in D.pos, y1 \in D.pos, r1 \in D.size,
          x2 \in D.pos, y2 \in D.pos, r2 \in D.size :
           Return("fast_circle_collision",
                  [x1 |-> x1, y1 |-> y1, r1 |-> r1,
                   x2 |-> x2, y2 |-> y2, r2 |-> r2],
                  fast_circle_collision(x1, y1, r1, x2, y2, r2))

-----------------------------------------------------------------------------
(* batch_transform_points *)

num_points == Len(args.points)

cos_r == cos(args.rotation_rad)

sin_r == sin(args.rotation_rad)

\* one pass of the loop body for the input row p: scale, then rotate and translate
TransformRow(p) ==
    LET x == p[1]
        y == p[2]
        scaled_x == x * args.scale_x
        scaled_y == y * args.scale_y
    IN  <<scaled_x * cos_r - scaled_y * sin_r + args.trans_x,
          scaled_x * sin_r + scaled_y * cos_r + args.trans_y>>

TransformEntry(D) ==
    /\ pc = "idle"
    /\ \E points \in D.arrays, scale_x \in D.scales, scale_y \in D.scales,
          rotation_rad \in D.rots, trans_x \in D.trans, trans_y \in D.trans :
        /\ args' = [points |-> points, scale_x |-> scale_x, scale_y |-> scale_y,
                    rotation_rad |-> rotation_rad,
                    trans_x |-> trans_x, trans_y |-> trans_y]
        /\ result' = [k \in 1..Len(points) |-> Uninit]
    /\ pc' = "transform"
    /\ op' = "batch_transform_points"
    /\ i' = 0
    /\ visited' = << >>
    /\ UNCHANGED <<ret, j, results, seen>>

TransformStepReversed ==
    /\ pc = "transform"
    /\ i < num_points
    /\ result' = [result EXCEPT ![num_points - i] = TransformRow(args.points[i + 1])]
    /\ i' = i + 1
    /\ visited' = Append(visited, <<i>>)
    /\ UNCHANGED <<pc, op, args, ret, j, results, seen>>

TransformStepInPlace ==
    /\ pc = "transform"
    /\ i < num_points
    /\ result' = [result EXCEPT ![i + 1] = TransformRow(args.points[i + 1])]
    /\ args' = [args EXCEPT !.points[i + 1] = TransformRow(args.points[i + 1])]
    /\ i' = i + 1
    /\ visited' = Append(visited, <<i>>)
    /\ UNCHANGED <<pc, op, ret, j, results, seen>>

\* one iteration of "for i in range(num_points)"
TransformStep ==
    /\ pc = "transform"
    /\ i < num_points
    /\ result' = [result EXCEPT ![i + 1] = TransformRow(args.points[i + 1])]
    /\ i' = i + 1
    /\ visited' = Append(visited, <<i>>)
    /\ UNCHANGED <<pc, op, args, ret, j, results, seen>>

TransformReturn ==
    /\ pc = "transform"
    /\ i = num_points
    /\ pc' = "returned"
    /\ ret' = result
    /\ UNCHANGED <<op, args, i, j, result, results, visited, seen>>

-----------------------------------------------------------------------------
(* batch_distance_check *)

num_points1 == Len(args.points1)

num_points2 == Len(args.points2)

max_dist_squared == args.max_distance * args.max_distance

DistanceEntry(D) ==
    /\ pc = "idle"
    /\ \E points1 \in D.arrays, points2 \in D.arrays2, max_distance \in D.thresholds :
        args' = [points1 |-> points1, points2 |-> points2,
                 max_distance |-> max_distance]
    /\ pc' = "distance"
    /\ op' = "batch_distance_check"
    /\ results' = << >>
    /\ i' = 0
    /\ j' = 0
    /\ visited' = << >>
    /\ UNCHANGED <<ret, result, seen>>

DistanceInnerPrepend ==
    /\ pc = "distance"
    /\ i < num_points1
    /\ j < num_points2
    /\ LET dist_squared ==
               c_distance_squared(args.points1[i + 1][1], args.points1[i + 1][2],
                                  args.points2[j + 1][1], args.points2[j + 1][2])
       IN  results' = IF dist_squared <= max_dist_squared
                      THEN <<<<i, j, sqrt(dist_squared)>>>> \o results
                      ELSE results
    /\ j' = j + 1
    /\ visited' = Append(visited, <<i, j>>)
    /\ UNCHANGED <<pc, op, args, ret, i, result, seen>>

\* one iteration of "for j in range(num_points2)"
DistanceInner ==
    /\ pc = "distance"
    /\ i < num_points1
    /\ j < num_points2
    /\ LET dist_squared ==
               c_distance_squared(args.points1[i + 1][1], args.points1[i + 1][2],
                                  args.points2[j + 1][1], args.points2[j + 1][2])
       IN  results' = IF dist_squared <= max_dist_squared
                      THEN Append(results, <<i, j, sqrt(dist_squared)>>)
                      ELSE results
    /\ j' = j + 1
    /\ visited' = Append(visited, <<i, j>>)
    /\ UNCHANGED <<pc, op, args, ret, i, result, seen>>

DistanceNextRowKeepJ ==
    /\ pc = "distance"
    /\ i < num_points1
    /\ j = num_points2
    /\ i' = i + 1
    /\ UNCHANGED <<pc, op, args, ret, j, result, results, visited, seen>>

\* the inner loop is exhausted: the next iteration of "for i in range(num_points1)"
DistanceNextRow ==
    /\ pc = "distance"
    /\ i < num_points1
    /\ j = num_points2
    /\ i' = i + 1
    /\ j' = 0
    /\ UNCHANGED <<pc, op, args, ret, result, results, visited, seen>>

DistanceReturn ==
    /\ pc = "distance"
    /\ i = num_points1
    /\ pc' = "returned"
    /\ ret' = results
    /\ UNCHANGED <<op, args, i, j, result, results, visited, seen>>

-----------------------------------------------------------------------------
(* The caller *)

\* the caller drops the returned value; the call's frame is gone
Forget ==
    /\ pc' = "idle"
    /\ op' = "none"
    /\ args' = << >>
    /\ ret' = << >>
    /\ i' = 0
    /\ j' = 0
    /\ result' = << >>
    /\ results' = << >>
    /\ visited' = << >>

Discard ==
    /\ pc = "returned"
    /\ Forget
    /\ UNCHANGED seen

\* as Discard, and the call is kept for comparison with a later one
Remember ==
    /\ pc = "returned"
    /\ Forget
    /\ seen' = [op |-> op, args |-> args, ret |-> ret]

Next ==
    \/ FastDistance(Full)
    \/ FastDistanceSquared(Full)
    \/ FastNormalize(Full)
    \/ FastLerp(Full)
    \/ FastClamp(Full)
    \/ FastRectCollision(Full)
    \/ FastCircleCollision(Full)
    \/ TransformEntry(Full)
    \/ TransformStep
    \/ TransformReturn
    \/ DistanceEntry(Full)
    \/ DistanceInner
    \/ DistanceNextRow
    \/ DistanceReturn
    \/ Discard

Spec == Init /\ [][Next]_vars

NextPure ==
    \/ FastDistance(Pure)
    \/ FastDistanceSquared(Pure)
    \/ FastNormalize(Pure)
    \/ FastLerp(Pure)
    \/ FastClamp(Pure)
    \/ FastRectCollision(Pure)
    \/ FastCircleCollision(Pure)
    \/ TransformEntry(Pure)
    \/ TransformStep
    \/ TransformReturn
    \/ DistanceEntry(Pure)
    \/ DistanceInner
    \/ DistanceNextRow
    \/ DistanceReturn
    \/ Discard
    \/ Remember

SpecPure == Init /\ [][NextPure]_vars

-----------------------------------------------------------------------------
(* Properties *)

Returned(o) == pc = "returned" /\ op = o

\* the squared Euclidean distance of the points p and q
DistSq(p, q) == (q[1] - p[1]) * (q[1] - p[1]) + (q[2] - p[2]) * (q[2] - p[2])

\* over the reals: the distance of p and q is at most m
WithinDistance(p, q, m) == m >= 0 /\ DistSq(p, q) <= m * m

\* d is the distance of p and q, in units of 1/Scale, rounded down
IsDistance(d, p, q) ==
    /\ d >= 0
    /\ d * d <= DistSq(p, q) * Scale * Scale
    /\ DistSq(p, q) * Scale * Scale < (d + 1) * (d + 1)

\* C1: batch_distance_check returns a triple (i, j, d) for exactly the index
\* pairs whose Euclidean distance is <= max_distance, whatever the sign of
\* max_distance, and d is that distance.
C1_ExactlyWithinThreshold ==
    Returned("batch_distance_check") =>
        LET p1 == args.points1
            p2 == args.points2
        IN  /\ \A a \in 1..Len(p1), b \in 1..Len(p2) :
                   WithinDistance(p1[a], p2[b], args.max_distance)
                       <=> (\E k \in 1..Len(ret) : ret[k][1] = a - 1 /\ ret[k][2] = b - 1)
            /\ \A k \in 1..Len(ret) :
                   /\ ret[k][1] \in 0..(Len(p1) - 1)
                   /\ ret[k][2] \in 0..(Len(p2) - 1)
                   /\ IsDistance(ret[k][3], p1[ret[k][1] + 1], p2[ret[k][2] + 1])

\* the closed ranges [a, b] and [c, d] have a point in common
RangesMeet(a, b, c, d) == (a..b) \cap (c..d) # {}

\* C2: for rectangles of non-negative width and height, fast_rect_collision is
\* true exactly when the closed x ranges intersect and the closed y ranges
\* intersect; touching edges or corners collide, a gap on either axis does not.
C2_RectClosedIntervals ==
    (/\ Returned("fast_rect_collision")
     /\ args.w1 >= 0 /\ args.h1 >= 0 /\ args.w2 >= 0 /\ args.h2 >= 0)
    => /\ ret <=> /\ RangesMeet(args.x1, args.x1 + args.w1, args.x2, args.x2 + args.w2)
                  /\ RangesMeet(args.y1, args.y1 + args.h1, args.y2, args.y2 + args.h2)
       /\ (args.x1 + args.w1 = args.x2 /\ args.y1 + args.h1 = args.y2) => ret
       /\ (args.x1 + args.w1 < args.x2 \/ args.y1 + args.h1 < args.y2) => ~ret

\* two unit squares sharing one edge were tested and collide
C2_Witness ==
    /\ Returned("fast_rect_collision")
    /\ args = [x1 |-> 0, y1 |-> 0, w1 |-> 1, h1 |-> 1,
               x2 |-> 1, y2 |-> 0, w2 |-> 1, h2 |-> 1]
    /\ ret = TRUE

\* C3: for non-negative radii, fast_circle_collision is true exactly when the
\* distance of the centres is <= r1 + r2; tangent circles collide.
C3_CircleClosedBoundary ==
    (Returned("fast_circle_collision") /\ args.r1 >= 0 /\ args.r2 >= 0)
    => LET c1 == <<args.x1, args.y1>>
           c2 == <<args.x2, args.y2>>
       IN  /\ ret <=> WithinDistance(c1, c2, args.r1 + args.r2)
           /\ DistSq(c1, c2) = (args.r1 + args.r2) * (args.r1 + args.r2) => ret
           /\ DistSq(c1, c2) > (args.r1 + args.r2) * (args.r1 + args.r2) => ~ret

\* two circles touching in exactly one point were tested and collide
C3_Witness ==
    /\ Returned("fast_circle_collision")
    /\ args.r1 > 0 /\ args.r2 > 0
    /\ DistSq(<<args.x1, args.y1>>, <<args.x2, args.y2>>)
           = (args.r1 + args.r2) * (args.r1 + args.r2)
    /\ ret = TRUE

\* q turned by r quarter turns about the origin
RECURSIVE Rotate(_, _)
Rotate(q, r) == IF r = 0 THEN q ELSE Rotate(<<0 - q[2], q[1]>>, r - 1)

\* C4: the result of batch_transform_points has one row per input row, and row
\* i is input row i scaled, then rotated, then translated; without rotation it
\* is (x*scale_x + trans_x, y*scale_y + trans_y).
C4_TransformKeepsOrder ==
    Returned("batch_transform_points") =>
        /\ Len(ret) = Len(args.points)
        /\ \A k \in 1..Len(args.points) :
               LET p == args.points[k]
                   scaled == <<p[1] * args.scale_x, p[2] * args.scale_y>>
                   turned == Rotate(scaled, args.rotation_rad)
               IN  /\ ret[k] = <<turned[1] + args.trans_x, turned[2] + args.trans_y>>
                   /\ args.rotation_rad = 0 =>
                          ret[k] = <<p[1] * args.scale_x + args.trans_x,
                                     p[2] * args.scale_y + args.trans_y>>

\* two different points were scaled, turned and moved into two different rows
C4_Witness ==
    /\ Returned("batch_transform_points")
    /\ Len(args.points) = 2
    /\ args.points[1] # args.points[2]
    /\ args.rotation_rad # 0
    /\ args.scale_x # args.scale_y
    /\ Len(ret) = 2
    /\ ret[1] # ret[2]

\* the index pair of triple s comes before that of triple t
LexLess(s, t) == s[1] < t[1] \/ (s[1] = t[1] /\ s[2] < t[2])

Ascending(l) == \A k \in 1..Len(l), m \in 1..Len(l) : k < m => LexLess(l[k], l[m])

\* this call has the function and the arguments of the remembered one
SameCall == seen.op = op /\ seen.args = args

\* C5: batch_distance_check emits its triples in strictly ascending order of
\* (i, j), so no index pair twice, and a second call with the same inputs
\* returns the same list in the same order.
C5_DistanceOrder ==
    /\ pc = "distance" => Ascending(results)
    /\ Returned("batch_distance_check") => Ascending(ret)
    /\ (Returned("batch_distance_check") /\ SameCall) => ret = seen.ret

\* a call that returned two triples was repeated with the same inputs
C5_Witness ==
    /\ Returned("batch_distance_check")
    /\ SameCall
    /\ Len(ret) >= 2

\* k is 1/sqrt(n) in units of 1/Scale, to within one unit
IsInverseLength(k, n) ==
    /\ k > 0
    /\ (k - 1) * (k - 1) * n <= Scale * Scale
    /\ Scale * Scale <= (k + 1) * (k + 1) * n

C7_PureNoState ==
    /\ []((pc = "returned" /\ SameCall) => ret = seen.ret)
    /\ [][(pc \in {"transform", "distance"}) => (args' = args)]_vars
    /\ [][(pc = "idle" /\ pc' = "transform") =>
              (\A k \in 1..Len(result') : result'[k] = Uninit)]_vars
    /\ [][(pc = "idle" /\ pc' = "distance") => (results' = << >>)]_vars

\* a batch transform of a non-empty array was repeated with the same arguments
C7_Witness ==
    /\ Returned("batch_transform_points")
    /\ SameCall
    /\ Len(args.points) = 2
    /\ ret # args.points

\* C8: with min_val <= max_val, fast_clamp returns min_val below the range,
\* max_val above it and the value itself inside it; the result is in the
\* range, and clamping it again changes nothing.
C8_Clamp ==
    (Returned("fast_clamp") /\ args.min_val <= args.max_val) =>
        /\ args.value < args.min_val => ret = args.min_val
        /\ args.value > args.max_val => ret = args.max_val
        /\ (args.min_val <= args.value /\ args.value <= args.max_val) => ret = args.value
        /\ args.min_val <= ret /\ ret <= args.max_val
        /\ fast_clamp(ret, args.min_val, args.max_val) = ret

\* a value above a proper range was clamped to its upper end
C8_Witness ==
    /\ Returned("fast_clamp")
    /\ args.min_val < args.max_val
    /\ args.value > args.max_val
    /\ ret = args.max_val

\* C9: both collision tests give the same answer with their two shapes
\* exchanged.
C9_Symmetric ==
    /\ Returned("fast_rect_collision") =>
           ret = fast_rect_collision(args.x2, args.y2, args.w2, args.h2,
                                     args.x1, args.y1, args.w1, args.h1)
    /\ Returned("fast_circle_collision") =>
           ret = fast_circle_collision(args.x2, args.y2, args.r2,
                                       args.x1, args.y1, args.r1)

\* two circles of different radius at different places were found to collide
C9_Witness ==
    /\ Returned("fast_circle_collision")
    /\ args.r1 # args.r2
    /\ <<args.x1, args.y1>> # <<args.x2, args.y2>>
    /\ ret = TRUE

AllPairs(n1, n2) == {<<a, b>> : a \in 0..(n1 - 1), b \in 0..(n2 - 1)}

\* a batch call is under way
Running == pc \in {"transform", "distance"}

\* the guard of one of the steps of a running batch call holds: of
\* TransformStep or TransformReturn, or of DistanceInner, DistanceNextRow or
\* DistanceReturn
CanStep ==
    \/ pc = "transform" /\ (i < num_points \/ i = num_points)
    \/ pc = "distance" /\ \/ i < num_points1 /\ (j < num_points2 \/ j = num_points2)
                          \/ i = num_points1

\* the number of loop steps a running batch call still has to take
Remaining ==
    IF pc = "transform"
    THEN num_points - i
    ELSE (num_points1 - i) * (num_points2 + 1) - j

\* C10: a batch call always returns: while it runs a step is possible and each
\* step brings the return nearer.  batch_transform_points has then run exactly
\* n iterations, batch_distance_check has examined each of the n1*n2 index
\* pairs exactly once and returns at most n1*n2 triples; an empty input gives
\* an empty result.
C10_Terminates ==
    /\ [](Returned("batch_transform_points") =>
              /\ visited = [k \in 1..Len(args.points) |-> <<k - 1>>]
              /\ Len(args.points) = 0 => ret = << >>)
    /\ [](Returned("batch_distance_check") =>
              LET n1 == Len(args.points1)
                  n2 == Len(args.points2)
              IN  /\ Len(visited) = n1 * n2
                  /\ {visited[k] : k \in 1..Len(visited)} = AllPairs(n1, n2)
                  /\ Len(ret) <= n1 * n2
                  /\ (n1 = 0 \/ n2 = 0) => ret = << >>)
    /\ [](Running => (Remaining >= 0 /\ CanStep))
    /\ [][Running => (pc' = "returned" \/ (pc' = pc /\ Remaining' < Remaining))]_vars

\* a check of two points against two points has returned
C10_Witness ==
    /\ Returned("batch_distance_check")
    /\ Len(args.points1) = 2
    /\ Len(args.points2) = 2
    /\ Len(visited) = 4

====
